---- MODULE Spec2Model ----
(***************************************************************************)
(* Model of create_context_chunks (src/app.py, lines 51-113): the          *)
(* paragraph-respecting chunker that splits oversized paragraphs into      *)
(* overlapping token windows.  Text is a sequence of one-character         *)
(* strings; the tokenizer assigns one token id per character.              *)
(***************************************************************************)
EXTENDS Integers, Sequences, FiniteSets, TLC

\* ------------------------------------------------------------------ bounds
MaxDocLen   == 7    \* longest document enumerated over the whole alphabet
MaxFairLen  == 5    \* the same, in the specification with fairness
MaxLongPara == 10   \* longest single-paragraph document ("a" repeated)
MaxNegCfg   == 1    \* max_tokens / overlap arguments tried go down to -MaxNegCfg
MaxCfg      == 4    \* largest max_tokens / overlap argument tried
MaxChunks   == 12   \* cap on emitted chunks (stops endless loops)

Alphabet == {"a", " ", "\n"}
Whitespace == {" ", "\n"}
SepTokens == 2

\* "a", a paragraph of k "a"s and "a" again, separated by blank lines
Mixed(k) ==
    <<"a", "\n", "\n">> \o [i \in 1..k |-> "a"] \o <<"\n", "\n", "a">>

DocsUpTo(len) ==
    UNION {[1..k -> Alphabet] : k \in 0..len}
      \cup {[i \in 1..k |-> "a"] : k \in (len + 1)..MaxLongPara}
      \cup {Mixed(k) : k \in 1..(MaxLongPara - 6)}

Docs == DocsUpTo(MaxDocLen)
FairDocs == DocsUpTo(MaxFairLen)

VARIABLES
    markdown_text,            \* argument
    max_tokens,               \* argument
    overlap,                  \* argument
    pc,                       \* position in the function
    paragraphs,               \* markdown_text.split('\n\n')
    pi,                       \* index of the paragraph the for loop is at
    chunks,
    current_chunk_para_list,
    current_token_count,
    para,                     \* stripped paragraph of this iteration
    para_tokens,              \* enc.encode(para)
    start_index,
    windows,                  \* history: windows emitted for the paragraph being split
    chunk_ntok,               \* history: token count of each chunk, as built
    chunk_src,                \* history: the paragraphs each chunk was built from
    pending_src,              \* history: indices of the pending paragraphs
    error,                    \* exception leaving the function, "" if none
    failed,                   \* history: the tokenizer raised during the call
    result                    \* returned list (meaningful when pc = "done")

vars == <<markdown_text, max_tokens, overlap, pc, paragraphs, pi, chunks,
          current_chunk_para_list, current_token_count, para, para_tokens,
          start_index, windows, chunk_ntok, chunk_src, pending_src, error,
          failed, result>>

\* --------------------------------------------------------- string helpers
Min(a, b) == IF a < b THEN a ELSE b
Max(a, b) == IF a > b THEN a ELSE b

RECURSIVE SplitAcc(_, _, _)
SplitAcc(s, cur, out) ==
    IF s = <<>> THEN Append(out, cur)
    ELSE IF Len(s) >= 2 /\ s[1] = "\n" /\ s[2] = "\n"
         THEN SplitAcc(SubSeq(s, 3, Len(s)), <<>>, Append(out, cur))
         ELSE SplitAcc(Tail(s), Append(cur, s[1]), out)

\* str.split('\n\n'): leftmost non-overlapping separators, empty pieces kept
Split(s) == SplitAcc(s, <<>>, <<>>)

RECURSIVE LStrip(_)
LStrip(s) == IF s /= <<>> /\ s[1] \in Whitespace THEN LStrip(Tail(s)) ELSE s

RECURSIVE RStrip(_)
RStrip(s) ==
    IF s /= <<>> /\ s[Len(s)] \in Whitespace
    THEN RStrip(SubSeq(s, 1, Len(s) - 1)) ELSE s

\* str.strip()
Strip(s) == RStrip(LStrip(s))

RECURSIVE Join(_)
\* '\n\n'.join(list)
Join(list) ==
    IF list = <<>> THEN <<>>
    ELSE IF Len(list) = 1 THEN list[1]
    ELSE list[1] \o <<"\n", "\n">> \o Join(Tail(list))

\* ------------------------------------------------------------- tokenizer
TokenId(c) == CASE c = "a" -> 1 [] c = " " -> 2 [] c = "\n" -> 3
TokenText(t) == CASE t = 1 -> "a" [] t = 2 -> " " [] t = 3 -> "\n"

\* enc.encode(text)
Encode(text) == [i \in 1..Len(text) |-> TokenId(text[i])]
\* enc.decode(tokens)
Decode(tokens) == [i \in 1..Len(tokens) |-> TokenText(tokens[i])]

\* seq[i:j] with Python's treatment of negative and out-of-range indices
PySlice(seq, i, j) ==
    LET n  == Len(seq)
        lo == IF i < 0 THEN Max(i + n, 0) ELSE Min(i, n)
        hi == IF j < 0 THEN Max(j + n, 0) ELSE Min(j, n)
    IN  IF lo >= hi THEN <<>> ELSE SubSeq(seq, lo + 1, hi)

\* ---------------------------------------------------- pieces of the code
ValidConfig == max_tokens > 0 /\ overlap >= 0 /\ overlap < max_tokens

\* line 70
Oversized(n) == n > max_tokens

OverflowsNoSurcharge(count, n, pending) == count + n > max_tokens

OverflowsOffByOne(count, n, pending) ==
    count + n + (IF pending /= <<>> THEN SepTokens ELSE 0) >= max_tokens

\* line 91
Overflows(count, n, pending) ==
    count + n + (IF pending /= <<>> THEN SepTokens ELSE 0) > max_tokens

\* line 80
EndIndex(start, n) == Min(start + max_tokens, n)

NextStartStuck(start) == start

\* line 84
NextStart(start) == start + (max_tokens - overlap)

ReturnChunksAsIs(chs) == chs

\* lines 110-113
ReturnValue(chs) == IF chs = <<>> THEN << <<>> >> ELSE chs

RECURSIVE SumTokens(_)
SumTokens(list) ==
    IF list = <<>> THEN 0 ELSE Len(Encode(list[1])) + SumTokens(Tail(list))

\* token count of a joined chunk: paragraphs plus 2 per separator
JoinedTokenCount(list) ==
    IF list = <<>> THEN 0 ELSE SumTokens(list) + SepTokens * (Len(list) - 1)

FlushedLastOnly(chs, pending) ==
    IF pending /= <<>> THEN Append(chs, pending[Len(pending)]) ELSE chs

\* lines 72-73, 93-94, 106-107: a non-empty accumulator becomes one chunk
Flushed(chs, pending) ==
    IF pending /= <<>> THEN Append(chs, Join(pending)) ELSE chs

\* history kept with Flushed: the token count of the chunk just built
FlushedCounts(counts, pending) ==
    IF pending /= <<>> THEN Append(counts, JoinedTokenCount(pending)) ELSE counts

\* history kept with Flushed: the paragraphs the chunk just built came from
FlushedSources(srcs, pending) ==
    IF pending /= <<>>
    THEN Append(srcs, [kind |-> "acc", first |-> pending[1],
                       last |-> pending[Len(pending)]])
    ELSE srcs

AppendedCountNoSurcharge(count, n, pending) == count + n

\* line 103, with the list as it is after the append of line 101
AppendedCount(count, n, pending) ==
    count + n + (IF Len(pending) > 1 THEN SepTokens ELSE 0)

\* ------------------------------------------------------------------ Init
InitOver(documents) ==
    /\ markdown_text \in documents
    /\ max_tokens \in (0 - MaxNegCfg)..MaxCfg
    /\ overlap \in (0 - MaxNegCfg)..MaxCfg
    /\ pc = "call"
    /\ paragraphs = <<>>
    /\ pi = 0
    /\ chunks = <<>>
    /\ current_chunk_para_list = <<>>
    /\ current_token_count = 0
    /\ para = <<>>
    /\ para_tokens = <<>>
    /\ start_index = 0
    /\ windows = <<>>
    /\ chunk_ntok = <<>>
    /\ chunk_src = <<>>
    /\ pending_src = <<>>
    /\ error = ""
    /\ failed = FALSE
    /\ result = <<>>

Init == InitOver(Docs)
FairInit == InitOver(FairDocs)

args == <<markdown_text, max_tokens, overlap>>
exc == <<error, failed>>

\* --------------------------------------------------------------- actions
\* lines 53-59: no argument check; split and set up the accumulator
Enter ==
    /\ pc = "call"
    /\ paragraphs' = Split(markdown_text)
    /\ pi' = 1
    /\ pc' = "loop"
    /\ UNCHANGED <<args, chunks, current_chunk_para_list, pending_src, current_token_count,
                   para, para_tokens, start_index, windows, chunk_ntok, chunk_src,
                   exc, result>>

\* lines 61-64: next paragraph, stripped; empty ones are skipped
NextParagraph ==
    /\ pc = "loop"
    /\ pi <= Len(paragraphs)
    /\ para' = Strip(paragraphs[pi])
    /\ IF para' = <<>>
         THEN pi' = pi + 1 /\ pc' = "loop"
         ELSE pi' = pi /\ pc' = "encode"
    /\ UNCHANGED <<args, paragraphs, chunks, current_chunk_para_list, pending_src,
                   current_token_count, para_tokens, start_index, windows,
                   chunk_ntok, chunk_src, exc, result>>

OversizedParagraphKeepsPending ==
    /\ pc = "encode"
    /\ para_tokens' = Encode(para)
    /\ Oversized(Len(para_tokens'))
    /\ start_index' = 0
    /\ windows' = <<>>
    /\ pc' = "window"
    /\ UNCHANGED <<args, paragraphs, pi, chunks, chunk_ntok, chunk_src,
                   current_chunk_para_list, pending_src, current_token_count,
                   para, exc, result>>

\* lines 66-78: oversized paragraph; flush the accumulator, start windowing
OversizedParagraph ==
    /\ pc = "encode"
    /\ para_tokens' = Encode(para)
    /\ Oversized(Len(para_tokens'))
    /\ chunks' = Flushed(chunks, current_chunk_para_list)
    /\ chunk_ntok' = FlushedCounts(chunk_ntok, current_chunk_para_list)
    /\ chunk_src' = FlushedSources(chunk_src, pending_src)
    /\ current_chunk_para_list' = <<>>
    /\ pending_src' = <<>>
    /\ current_token_count' = 0
    /\ start_index' = 0
    /\ windows' = <<>>
    /\ pc' = "window"
    /\ UNCHANGED <<args, paragraphs, pi, para, exc, result>>

\* lines 79-87: one iteration of the windowing loop.  The loop is only ever
\* left through the break of line 86: when the break is not taken,
\* start_index < end_index <= len(para_tokens), so the test of line 79 holds.
WindowEmit ==
    /\ pc = "window"
    /\ start_index < Len(para_tokens)
    /\ Len(chunks) < MaxChunks
    /\ LET end_index    == EndIndex(start_index, Len(para_tokens))
           chunk_tokens == PySlice(para_tokens, start_index, end_index)
           next         == NextStart(start_index)
       IN  /\ chunks' = Append(chunks, Decode(chunk_tokens))
           /\ chunk_ntok' = Append(chunk_ntok, Len(chunk_tokens))
           /\ chunk_src' = Append(chunk_src,
                                  [kind |-> "win", first |-> pi, last |-> pi])
           /\ windows' = Append(windows, [s |-> start_index, e |-> end_index,
                                       n |-> Len(para_tokens)])
           /\ start_index' = next
           /\ IF next >= end_index
                THEN pc' = "loop" /\ pi' = pi + 1
                ELSE pc' = "window" /\ pi' = pi
    /\ UNCHANGED <<args, paragraphs, current_chunk_para_list, pending_src,
                   current_token_count, para, para_tokens, exc, result>>

\* lines 66-67, 91-98: the paragraph does not fit; flush and start anew
OverflowFlush ==
    /\ pc = "encode"
    /\ para_tokens' = Encode(para)
    /\ ~Oversized(Len(para_tokens'))
    /\ Overflows(current_token_count, Len(para_tokens'), current_chunk_para_list)
    /\ chunks' = Flushed(chunks, current_chunk_para_list)
    /\ chunk_ntok' = FlushedCounts(chunk_ntok, current_chunk_para_list)
    /\ chunk_src' = FlushedSources(chunk_src, pending_src)
    /\ current_chunk_para_list' = <<para>>
    /\ pending_src' = <<pi>>
    /\ current_token_count' = Len(para_tokens')
    /\ pi' = pi + 1
    /\ pc' = "loop"
    /\ UNCHANGED <<args, paragraphs, para, start_index, windows, exc, result>>

\* lines 66-67, 99-103: the paragraph fits; append it
FitsAppend ==
    /\ pc = "encode"
    /\ para_tokens' = Encode(para)
    /\ ~Oversized(Len(para_tokens'))
    /\ ~Overflows(current_token_count, Len(para_tokens'), current_chunk_para_list)
    /\ current_chunk_para_list' = Append(current_chunk_para_list, para)
    /\ pending_src' = Append(pending_src, pi)
    /\ current_token_count' =
         AppendedCount(current_token_count, Len(para_tokens'),
                       current_chunk_para_list')
    /\ pi' = pi + 1
    /\ pc' = "loop"
    /\ UNCHANGED <<args, paragraphs, chunks, para, start_index, windows,
                   chunk_ntok, chunk_src, exc, result>>

\* lines 105-113: final flush and return
FinalFlush ==
    /\ pc = "loop"
    /\ pi > Len(paragraphs)
    /\ chunks' = Flushed(chunks, current_chunk_para_list)
    /\ chunk_ntok' = FlushedCounts(chunk_ntok, current_chunk_para_list)
    /\ chunk_src' = FlushedSources(chunk_src, pending_src)
    /\ result' = ReturnValue(chunks')
    /\ pc' = "done"
    /\ UNCHANGED <<args, paragraphs, pi, current_chunk_para_list, pending_src,
                   current_token_count, para, para_tokens, start_index,
                   windows, exc>>

EncodeFailsSwallowed ==
    /\ pc = "encode"
    /\ pc' = "done"
    /\ failed' = TRUE
    /\ result' = ReturnValue(chunks)
    /\ UNCHANGED <<args, paragraphs, pi, chunks, current_chunk_para_list, pending_src,
                   current_token_count, para, para_tokens, start_index,
                   windows, chunk_ntok, chunk_src, error>>

\* line 66: enc.encode raises; nothing in the function catches it
EncodeFails ==
    /\ pc = "encode"
    /\ pc' = "raised"
    /\ error' = "TokenizerError"
    /\ failed' = TRUE
    /\ UNCHANGED <<args, paragraphs, pi, chunks, current_chunk_para_list, pending_src,
                   current_token_count, para, para_tokens, start_index,
                   windows, chunk_ntok, chunk_src, result>>

\* line 82: enc.decode raises; nothing in the function catches it
DecodeFails ==
    /\ pc = "window"
    /\ start_index < Len(para_tokens)
    /\ pc' = "raised"
    /\ error' = "TokenizerError"
    /\ failed' = TRUE
    /\ UNCHANGED <<args, paragraphs, pi, chunks, current_chunk_para_list, pending_src,
                   current_token_count, para, para_tokens, start_index,
                   windows, chunk_ntok, chunk_src, result>>

Next ==
    \/ Enter
    \/ NextParagraph
    \/ OversizedParagraph
    \/ WindowEmit
    \/ OverflowFlush
    \/ FitsAppend
    \/ FinalFlush
    \/ EncodeFails
    \/ DecodeFails

Spec == Init /\ [][Next]_vars

\* the function runs to its return or exception without being suspended
FairSpec == FairInit /\ [][Next]_vars /\ WF_vars(Next)

TypeOK ==
    /\ pc \in {"call", "loop", "encode", "window", "done", "raised"}
    /\ Len(chunk_ntok) = Len(chunks)
    /\ error \in {"", "TokenizerError"}

\* -------------------------------------------------- vocabulary of the claims
RECURSIVE NonEmptyStripped(_)
NonEmptyStripped(pieces) ==
    IF pieces = <<>> THEN <<>>
    ELSE (IF Strip(pieces[1]) = <<>> THEN <<>> ELSE <<Strip(pieces[1])>>)
           \o NonEmptyStripped(Tail(pieces))

\* the non-empty stripped paragraphs of a document, in order
DocParagraphs == NonEmptyStripped(Split(markdown_text))

RECURSIVE DropEmpty(_)
DropEmpty(pieces) ==
    IF pieces = <<>> THEN <<>>
    ELSE (IF pieces[1] = <<>> THEN <<>> ELSE <<pieces[1]>>)
           \o DropEmpty(Tail(pieces))

RECURSIVE SplitAll(_)
\* every chunk split on the separator, the pieces concatenated in chunk order
SplitAll(chs) ==
    IF chs = <<>> THEN <<>> ELSE Split(chs[1]) \o SplitAll(Tail(chs))

NoOversizedParagraph ==
    \A i \in 1..Len(DocParagraphs) : Len(Encode(DocParagraphs[i])) <= max_tokens

\* the windowing loop of the last oversized paragraph has run to its end
WindowsComplete == windows /= <<>> /\ pc \in {"loop", "encode", "done"}

\* number of token positions two windows have in common
Shared(w1, w2) ==
    Cardinality({k \in 0..(w1.n - 1) :
                   /\ w1.s <= k /\ k < w1.e
                   /\ w2.s <= k /\ k < w2.e})

\* ------------------------------------------------------------------ claims
\* C1: with a valid configuration every emitted chunk counts at most
\* max_tokens tokens (joined chunk: paragraphs plus 2 per separator;
\* window chunk: length of its token slice).
C1_Budget ==
    ValidConfig =>
        \A i \in 1..Len(chunks) :
            /\ chunk_ntok[i] <= max_tokens
            /\ Len(Split(chunks[i])) > 1
                 => JoinedTokenCount(Split(chunks[i])) <= max_tokens

C1_Witness ==
    /\ pc = "done"
    /\ ValidConfig
    /\ \E i \in 1..Len(result) :
          /\ Len(Split(result[i])) = 2
          /\ chunk_ntok[i] = max_tokens
    /\ Len(result) >= 2

\* C2 as stated: without oversized paragraphs, the pieces obtained by
\* splitting every returned chunk on the separator are exactly the
\* document's non-empty stripped paragraphs.
C2_SplitReproduces ==
    (pc = "done" /\ NoOversizedParagraph) => SplitAll(result) = DocParagraphs

\* C2 amended: the same, once the empty pieces of the re-split are dropped
\* (the chunk "" of an empty document splits into one empty piece); joining
\* the chunks and re-splitting gives the same paragraphs.
C2_SplitReproducesNonEmpty ==
    (pc = "done" /\ NoOversizedParagraph) =>
        /\ DropEmpty(SplitAll(result)) = DocParagraphs
        /\ DropEmpty(Split(Join(result))) = DocParagraphs
        /\ DocParagraphs /= <<>> => SplitAll(result) = DocParagraphs

C2_Witness ==
    /\ pc = "done"
    /\ NoOversizedParagraph
    /\ Len(DocParagraphs) = 3
    /\ Len(result) = 2
    /\ Len(Split(result[1])) = 2

\* C3: with a valid configuration the windows of an oversized paragraph
\* start at 0, advance by max_tokens - overlap until the start reaches the
\* token count, and cover every token index of the paragraph.
C3_Coverage ==
    (ValidConfig /\ WindowsComplete) =>
        LET n    == windows[1].n
            step == max_tokens - overlap
        IN  /\ windows[1].s = 0
            /\ \A k \in 1..(Len(windows) - 1) :
                  windows[k + 1].s = windows[k].s + step
            /\ windows[Len(windows)].s + step >= n
            /\ \A t \in 0..(n - 1) :
                  \E k \in 1..Len(windows) :
                      windows[k].s <= t /\ t < windows[k].e

\* C4: for one paragraph of 3 * max_tokens tokens and 0 < overlap <
\* max_tokens, every two consecutive windows share exactly overlap tokens.
C4_ExactOverlap ==
    (ValidConfig /\ overlap > 0 /\ WindowsComplete
       /\ windows[1].n = 3 * max_tokens) =>
        \A k \in 1..(Len(windows) - 1) :
            Shared(windows[k], windows[k + 1]) = overlap

\* C5: a call with an invalid configuration fails at once with a
\* ConfigurationError and never starts chunking.
C5_InvalidConfigRejected ==
    ~ValidConfig =>
        /\ pc \in {"call", "raised"}
        /\ pc = "raised" => error = "ConfigurationError"
        /\ chunks = <<>>

\* C6: when max_tokens - overlap <= 0 the windowing loop stops after the
\* window it has just emitted: one window per oversized paragraph.
C6_OneWindowGuard ==
    (max_tokens - overlap <= 0) =>
        /\ Len(windows) <= 1
        /\ windows /= <<>> => pc /= "window"

\* C7: with overlap = max_tokens - 1 and a paragraph of 5 * max_tokens
\* tokens the window starts strictly increase, at most 5 * max_tokens
\* windows are emitted, and the call ends (returns or raises).
C7_Splitting ==
    /\ ValidConfig
    /\ overlap = max_tokens - 1
    /\ pc = "window"
    /\ Len(para_tokens) = 5 * max_tokens

C7_MinimalStepTerminates ==
    /\ [](C7_Splitting =>
            /\ Len(windows) <= 5 * max_tokens
            /\ \A k \in 1..(Len(windows) - 1) : windows[k + 1].s > windows[k].s
            /\ windows /= <<>> => start_index > windows[Len(windows)].s)
    /\ (C7_Splitting ~> pc \in {"done", "raised"})

C7_Witness ==
    /\ pc = "done"
    /\ ValidConfig
    /\ max_tokens > 1
    /\ overlap = max_tokens - 1
    /\ Len(windows) = 5 * max_tokens
    /\ windows[1].n = 5 * max_tokens

\* C8: a returned list is never empty; a document without non-empty
\* paragraphs returns exactly [""], and with a valid configuration a
\* document with a non-empty paragraph returns no empty chunk.
C8_NonEmptyOutput ==
    pc = "done" =>
        /\ result /= <<>>
        /\ DocParagraphs = <<>> => result = << <<>> >>
        /\ (DocParagraphs /= <<>> /\ ValidConfig) =>
              \A i \in 1..Len(result) : result[i] /= <<>>

C8_Witness ==
    /\ pc = "done"
    /\ ValidConfig
    /\ Len(markdown_text) = MaxDocLen
    /\ Len(paragraphs) >= 2
    /\ DocParagraphs = <<>>
    /\ result = << <<>> >>

\* C9: once the tokenizer has raised, the call is in the error outcome with
\* the TokenizerError and has returned nothing, whatever chunks it had.
C9_TokenizerFailureAborts ==
    failed =>
        /\ pc = "raised"
        /\ error = "TokenizerError"
        /\ result = <<>>

C9_Witness ==
    /\ failed
    /\ pc = "raised"
    /\ chunks /= <<>>
    /\ current_chunk_para_list /= <<>>

\* C10: a non-oversized paragraph met with a non-empty accumulator of count
\* c is appended iff c + 2 + tokens(p) <= max_tokens; otherwise the pending
\* paragraphs are flushed as one chunk and the accumulator becomes [p].
C10_GreedyOverflow ==
    [][(/\ pc = "encode"
        /\ pc' /= "raised"
        /\ Len(Encode(para)) <= max_tokens
        /\ current_chunk_para_list /= <<>>) =>
          IF current_token_count + 2 + Len(Encode(para)) <= max_tokens
          THEN /\ current_chunk_para_list' = Append(current_chunk_para_list, para)
               /\ chunks' = chunks
          ELSE /\ chunks' = Append(chunks, Join(current_chunk_para_list))
               /\ current_chunk_para_list' = <<para>>]_vars

C10_Witness ==
    /\ pc = "loop"
    /\ ValidConfig
    /\ Len(chunks) = 1
    /\ Len(Split(chunks[1])) = 2
    /\ current_chunk_para_list = <<para>>
    /\ current_token_count + 2 + JoinedTokenCount(Split(chunks[1])) > max_tokens

\* the stripped text of the paragraph at index k of the split document
ParagraphAt(k) == Strip(paragraphs[k])

\* text is a contiguous piece of whole
IsSliceOf(text, whole) ==
    \E a \in 0..Len(whole) : \E b \in a..Len(whole) :
        text = SubSeq(whole, a + 1, b)

\* C11: an oversized paragraph first flushes the pending accumulator as one
\* chunk and resets it, is then windowed and never joins the accumulator;
\* chunks follow the order of their source paragraphs and a window chunk
\* holds text of its oversized paragraph only.
C11_ChunkSources ==
    /\ Len(chunk_src) = Len(chunks)
    /\ pc = "window" =>
          current_chunk_para_list = <<>> /\ current_token_count = 0
    /\ \A i \in 1..Len(chunks) :
          LET c == chunk_src[i]
          IN  IF c.kind = "win"
              THEN /\ c.first = c.last
                   /\ Len(Encode(ParagraphAt(c.first))) > max_tokens
                   /\ IsSliceOf(chunks[i], ParagraphAt(c.first))
              ELSE /\ chunks[i] =
                        Join(NonEmptyStripped(SubSeq(paragraphs, c.first, c.last)))
                   /\ \A k \in c.first..c.last :
                         ParagraphAt(k) /= <<>> =>
                             Len(Encode(ParagraphAt(k))) <= max_tokens
    /\ \A i \in 1..Len(chunks) : \A j \in (i + 1)..Len(chunks) :
          /\ chunk_src[i].last <= chunk_src[j].first
          /\ chunk_src[i].last = chunk_src[j].first =>
                chunk_src[i].kind = "win" /\ chunk_src[j].kind = "win"
    /\ (pending_src /= <<>> /\ pc /= "done") =>
          \A i \in 1..Len(chunks) : chunk_src[i].last < pending_src[1]

C11_OversizedStep ==
    /\ (pc = "encode" /\ pc' = "window") =>
          /\ chunks' = IF current_chunk_para_list /= <<>>
                         THEN Append(chunks, Join(current_chunk_para_list))
                         ELSE chunks
          /\ current_chunk_para_list' = <<>>
          /\ current_token_count' = 0
    /\ pc = "window" => current_chunk_para_list' = <<>>

C11_DocumentOrder == []C11_ChunkSources /\ [][C11_OversizedStep]_vars

C11_Witness ==
    /\ pc = "done"
    /\ ValidConfig
    /\ overlap > 0
    /\ Len(chunks) >= 4
    /\ chunk_src[1].kind = "acc"
    /\ chunk_src[2].kind = "win"
    /\ chunk_src[Len(chunks)].kind = "acc"

\* C12: at the start of every loop iteration and at the final flush the
\* running count is the pending paragraphs' token counts plus 2 per
\* separator between them (0 for an empty list), and with a valid
\* configuration it is at most max_tokens.
C12_AccumulatorInvariant ==
    pc \in {"loop", "encode"} =>
        /\ current_chunk_para_list = <<>> => current_token_count = 0
        /\ current_chunk_para_list /= <<>> =>
              current_token_count =
                  SumTokens(current_chunk_para_list)
                    + 2 * (Len(current_chunk_para_list) - 1)
        /\ ValidConfig => current_token_count <= max_tokens

C12_Witness ==
    /\ pc = "loop"
    /\ pi > Len(paragraphs)
    /\ ValidConfig
    /\ Len(current_chunk_para_list) = 2
    /\ current_token_count = max_tokens
====
